---- MODULE Spec2Model ----
(***************************************************************************)
(* Model of src/compiler/parse/index.ts: the Parser class (cursor          *)
(* primitives, error reporter, context stack, state-machine driver), the   *)
(* parse() top-level assembly and the VisualSchemaParser converter.        *)
(*                                                                         *)
(* Text is a sequence of UTF-16 code units, each written as a one-letter   *)
(* string.  Offsets are 0-based as in the source; At and slice translate   *)
(* them to 1-based sequence positions.                                     *)
(***************************************************************************)
EXTENDS Integers, Sequences, FiniteSets, TLC

VARIABLES
    source,     \* the `template` argument of the constructor / parse()
    template,   \* Parser.template (index.ts:26, set at :45)
    filename,   \* Parser.filename (index.ts:27, set at :46)
    index,      \* Parser.index (index.ts:31)
    stack,      \* Parser.stack (index.ts:32)
    html,       \* Parser.html (index.ts:34)
    css,        \* Parser.css (index.ts:35)
    js,         \* Parser.js (index.ts:36)
    state,      \* local `state` of the constructor (index.ts:59)
    pc,         \* position of control in parse(): loop, post, constructed, parse, done
    err,        \* the error raised by Parser.error, NoError while none was raised
    result,     \* the Ast returned to the caller, NoResult while none was returned
    call,       \* the cursor primitive last called, with its arguments
    pre,        \* Parser.index when that primitive was entered
    ret,        \* the value that primitive returned
    schema,     \* the `schema` argument of parseVisualSchema
    options     \* its `options` argument

vars == <<source, template, filename, index, stack, html, css, js, state, pc,
          err, result, call, pre, ret, schema, options>>

----------------------------------------------------------------------------
(* Bounds of the model *)

MaxLen == 3
MaxStack == 3
MaxChildren == 2
MaxCss == 2
MaxJs == 4
MaxAttributes == 2
MaxChildNodes == 2
MaxBlocks == 4

----------------------------------------------------------------------------
(* Text *)

Undefined == "undefined"
null == -1

WS == " "

DriverUnits == {WS, "x"}

Texts(U, n) == UNION {[1..k -> U] : k \in 0..n}

Min(a, b) == IF a < b THEN a ELSE b

\* str[i]: the code unit at 0-based offset i, undefined outside the string
At(str, i) == IF i >= 0 /\ i < Len(str) THEN str[i + 1] ELSE Undefined

\* str.slice(from, to) for 0 <= from
slice(str, from, to) == SubSeq(str, from + 1, Min(to, Len(str)))

\* regex_whitespace.test(unit); an undefined unit is tested as the text "undefined"
regex_whitespace_test(unit) == unit = WS

RECURSIVE trimRight(_)
trimRight(str) ==
    IF Len(str) > 0 /\ str[Len(str)] = WS
    THEN trimRight(SubSeq(str, 1, Len(str) - 1))
    ELSE str

----------------------------------------------------------------------------
(* Error reporter *)

NoError == [name |-> "none", code |-> "none", message |-> <<>>,
            source |-> <<>>, start |-> 0, filename |-> Undefined]

NoResult == [type |-> "none"]

Aborted == err.name # "none"

Filenames == {Undefined, "App.svelte"}

\* error, were it to report the text as it was passed to the constructor
error_FullSource(desc, at) ==
    [name |-> "ParseError", code |-> desc.code, message |-> desc.message,
     source |-> source, start |-> at, filename |-> filename]

\* the error object Parser.error hands to utils/error, which raises it
error(desc, at) ==
    [name |-> "ParseError", code |-> desc.code, message |-> desc.message,
     source |-> template, start |-> at, filename |-> filename]

----------------------------------------------------------------------------
(* Context stack and tree *)

Root == [type |-> "Fragment", name |-> "", start |-> null]

current(stk) == stk[Len(stk)]

EmptyHtml == [type |-> "Fragment", start |-> null, end |-> null, children |-> <<>>]

Absent == [type |-> "absent", context |-> "", start |-> null]

----------------------------------------------------------------------------
(* Transition functions (./state/fragment and the states it returns) *)

States == {"fragment", "tag", "mustache", "text"}

Void == "void"

TagNames == {"p", "div"}

\* what one invocation of a transition function may do to the tree
TreeOps ==
    {[op |-> "none", name |-> ""], [op |-> "leaf", name |-> ""],
     [op |-> "close", name |-> ""], [op |-> "block", name |-> ""],
     [op |-> "style", name |-> ""],
     [op |-> "script", name |-> "default"], [op |-> "script", name |-> "module"]}
    \cup {[op |-> "element", name |-> t] : t \in TagNames}

OpEnabled(o) ==
    CASE o.op = "leaf" -> Len(stack) > 1 \/ Len(html.children) < MaxChildren
      [] o.op \in {"element", "block"} ->
            /\ Len(stack) < MaxStack
            /\ Len(stack) > 1 \/ Len(html.children) < MaxChildren
      [] o.op = "close" -> Len(stack) > 1
      [] o.op = "style" -> Len(stack) = 1 /\ Len(css) < MaxCss
      [] o.op = "script" -> Len(stack) = 1 /\ Len(js) < MaxJs
      [] OTHER -> TRUE

\* the stack after the operation: an opened node is pushed, a closed one popped
StackAfter(o) ==
    CASE o.op = "element" ->
            Append(stack, [type |-> "Element", name |-> o.name, start |-> index])
      [] o.op = "block" ->
            Append(stack, [type |-> "IfBlock", name |-> "", start |-> index])
      [] o.op = "close" -> SubSeq(stack, 1, Len(stack) - 1)
      [] OTHER -> stack

\* the root's children after the operation, the cursor being at `to` afterwards
ChildrenAfter(o, to) ==
    LET kids == html.children IN
    CASE o.op = "leaf" /\ Len(stack) = 1 ->
            Append(kids, [start |-> index, end |-> to])
      [] o.op \in {"element", "block"} /\ Len(stack) = 1 ->
            Append(kids, [start |-> index, end |-> null])
      [] o.op = "close" /\ Len(stack) = 2 ->
            [kids EXCEPT ![Len(kids)].end = to]
      [] OTHER -> kids

CssAfter(o) ==
    IF o.op = "style" THEN Append(css, [type |-> "Style", context |-> "", start |-> index])
    ELSE css

JsAfter(o) ==
    IF o.op = "script"
    THEN Append(js, [type |-> "Script", context |-> o.name, start |-> index])
    ELSE js

----------------------------------------------------------------------------
(* State-machine driver: Parser.constructor *)

\* OrFragment, were a transition function that returns no value not defaulted
OrFragment_Undefaulted(returned) == returned

\* `state(this) || fragment`
OrFragment(returned) == IF returned = Void THEN "fragment" ELSE returned

\* the value the transition function invoked last returned
Returned(value) == [kind |-> "state", b |-> FALSE, s |-> <<value>>]

\* one iteration of the loop: the transition function advances the cursor by n
\* units, performs o and returns `returned`
Iterate(n, o, returned) ==
    /\ pc = "loop" /\ ~Aborted
    /\ index < Len(template)
    /\ OpEnabled(o)
    /\ index' = index + n
    /\ stack' = StackAfter(o)
    /\ html' = [html EXCEPT !.children = ChildrenAfter(o, index + n)]
    /\ css' = CssAfter(o)
    /\ js' = JsAfter(o)
    /\ state' = OrFragment(returned)
    /\ ret' = Returned(returned)
    /\ UNCHANGED <<source, template, filename, pc, err, result, call, pre, schema, options>>

\* one iteration of the loop in which the transition function raises
IterateRaises(code) ==
    /\ pc = "loop" /\ ~Aborted
    /\ index < Len(template)
    /\ err' = error([code |-> code, message |-> <<code>>], index)
    /\ UNCHANGED <<source, template, filename, index, stack, html, css, js, state,
                   pc, result, call, pre, ret, schema, options>>

\* the descriptor of the error for a node left open
unclosed(node) ==
    LET type == IF node.type = "Element" THEN <<"<", node.name, ">">> ELSE <<"Block">>
        slug == IF node.type = "Element" THEN "element" ELSE "block"
    IN [code |-> "unclosed-" \o slug, message |-> type \o <<" was left open">>]

unexpected_eof == [code |-> "unexpected-eof", message |-> <<"Unexpected end of input">>]

\* PostLoopError, were the state examined before the stack
PostLoopError_StateFirst ==
    IF state # "fragment"
    THEN error(unexpected_eof, index)
    ELSE IF Len(stack) > 1
    THEN error(unclosed(current(stack)), current(stack).start)
    ELSE NoError

\* PostLoopError, were the stack not examined
PostLoopError_StackIgnored ==
    IF state # "fragment"
    THEN error(unexpected_eof, index)
    ELSE NoError

\* the first validation that fails after the loop, NoError when none does
PostLoopError ==
    IF Len(stack) > 1
    THEN error(unclosed(current(stack)), current(stack).start)
    ELSE IF state # "fragment"
    THEN error(unexpected_eof, index)
    ELSE NoError

RECURSIVE SkipForward(_, _)
SkipForward(text, start) ==
    IF regex_whitespace_test(At(text, start)) THEN SkipForward(text, start + 1) ELSE start

RECURSIVE SkipBackward(_, _)
SkipBackward(text, end) ==
    IF regex_whitespace_test(At(text, end - 1)) THEN SkipBackward(text, end - 1) ELSE end

\* the root's span, from the spans of its first and last child
RootSpan(fragment) ==
    IF Len(fragment.children) > 0
    THEN [fragment EXCEPT
            !.start = SkipForward(source, fragment.children[1].start),
            !.end = SkipBackward(source, fragment.children[Len(fragment.children)].end)]
    ELSE [fragment EXCEPT !.start = null, !.end = null]

\* Complete, were the loop left whatever the cursor
Complete_EarlyExit ==
    /\ pc = "loop" /\ ~Aborted
    /\ IF PostLoopError # NoError
       THEN /\ pc' = "post"
            /\ err' = PostLoopError
            /\ UNCHANGED html
       ELSE /\ pc' = "constructed"
            /\ html' = RootSpan(html)
            /\ UNCHANGED err
    /\ UNCHANGED <<source, template, filename, index, stack, css, js, state,
                   result, call, pre, ret, schema, options>>

\* the constructor after its loop
Complete ==
    /\ pc = "loop" /\ ~Aborted
    /\ ~(index < Len(template))
    /\ IF PostLoopError # NoError
       THEN /\ pc' = "post"
            /\ err' = PostLoopError
            /\ UNCHANGED html
       ELSE /\ pc' = "constructed"
            /\ html' = RootSpan(html)
            /\ UNCHANGED err
    /\ UNCHANGED <<source, template, filename, index, stack, css, js, state,
                   result, call, pre, ret, schema, options>>

----------------------------------------------------------------------------
(* Top-level assembly: parse() *)

duplicate_style == [code |-> "duplicate-style", message |-> <<"You can only have one top-level <style> tag per component">>]

invalid_script_instance == [code |-> "invalid-script-instance", message |-> <<"A component can only have one instance-level <script> element">>]

invalid_script_module == [code |-> "invalid-script-module", message |-> <<"A component can only have one <script context=\"module\"> element">>]

instance_scripts == SelectSeq(js, LAMBDA script : script.context = "default")

module_scripts == SelectSeq(js, LAMBDA script : script.context = "module")

\* list[0], undefined when the list is empty
First(list) == IF Len(list) > 0 THEN list[1] ELSE Absent

\* AssemblyError, were duplicate-style reported at the first style
AssemblyError_FirstStyle ==
    IF Len(css) > 1
    THEN error(duplicate_style, css[1].start)
    ELSE IF Len(instance_scripts) > 1
    THEN error(invalid_script_instance, instance_scripts[2].start)
    ELSE IF Len(module_scripts) > 1
    THEN error(invalid_script_module, module_scripts[2].start)
    ELSE NoError

\* AssemblyError, were the second script taken from the list before its partition
AssemblyError_Unpartitioned ==
    IF Len(css) > 1
    THEN error(duplicate_style, css[2].start)
    ELSE IF Len(instance_scripts) > 1
    THEN error(invalid_script_instance, js[2].start)
    ELSE IF Len(module_scripts) > 1
    THEN error(invalid_script_module, js[2].start)
    ELSE NoError

\* AssemblyError, were the scripts examined before the styles
AssemblyError_ScriptsFirst ==
    IF Len(instance_scripts) > 1
    THEN error(invalid_script_instance, instance_scripts[2].start)
    ELSE IF Len(module_scripts) > 1
    THEN error(invalid_script_module, module_scripts[2].start)
    ELSE IF Len(css) > 1
    THEN error(duplicate_style, css[2].start)
    ELSE NoError

\* the first cardinality check that fails, NoError when none does
AssemblyError ==
    IF Len(css) > 1
    THEN error(duplicate_style, css[2].start)
    ELSE IF Len(instance_scripts) > 1
    THEN error(invalid_script_instance, instance_scripts[2].start)
    ELSE IF Len(module_scripts) > 1
    THEN error(invalid_script_module, module_scripts[2].start)
    ELSE NoError

Ast ==
    [type |-> "Ast", html |-> html, css |-> First(css),
     instance |-> First(instance_scripts), module |-> First(module_scripts)]

\* parse() after `new Parser`
Assemble ==
    /\ pc = "constructed" /\ ~Aborted
    /\ IF AssemblyError # NoError
       THEN /\ pc' = "parse"
            /\ err' = AssemblyError
            /\ UNCHANGED result
       ELSE /\ pc' = "done"
            /\ result' = Ast
            /\ UNCHANGED err
    /\ UNCHANGED <<source, template, filename, index, stack, html, css, js, state,
                   call, pre, ret, schema, options>>

----------------------------------------------------------------------------
(* Cursor and lexical primitives *)

CursorUnits == {WS, "i", "n", "1", "}", "H", "L"}

NoCall == [fn |-> "none", str |-> <<>>, pattern |-> "", flag |-> FALSE, custom |-> FALSE]

NoRet == [kind |-> "none", b |-> FALSE, s |-> <<>>]

Null == [kind |-> "null", b |-> FALSE, s |-> <<>>]

Bool(b) == [kind |-> "bool", b |-> b, s |-> <<>>]

Str(s) == [kind |-> "string", b |-> FALSE, s |-> s]

\* what a primitive leaves behind: the cursor, the value returned, the error raised
Outcome(i, r, e) == [index |-> i, ret |-> r, err |-> e]

Literals == {<<"}">>, <<"i", "n">>}

CustomError == [code |-> "custom-error", message |-> <<"custom">>]

\* parser_errors.unexpected_eof_token and parser_errors.unexpected_token
unexpected_eof_token(token) ==
    [code |-> "unexpected-eof-token", message |-> <<"Expected ">> \o token]

unexpected_token(token) ==
    [code |-> "unexpected-token", message |-> <<"Expected ">> \o token]

match(str) == slice(template, index, index + Len(str)) = str

\* eat, were the end of input not told apart
eat_WithoutEofCase(str, required, custom) ==
    IF match(str)
    THEN Outcome(index + Len(str), Bool(TRUE), NoError)
    ELSE IF required
    THEN Outcome(index, NoRet,
                 error(IF custom THEN CustomError ELSE unexpected_token(str), index))
    ELSE Outcome(index, Bool(FALSE), NoError)

eat(str, required, custom) ==
    IF match(str)
    THEN Outcome(index + Len(str), Bool(TRUE), NoError)
    ELSE IF required
    THEN Outcome(index, NoRet,
                 error(IF custom THEN CustomError
                       ELSE IF index = Len(template) THEN unexpected_eof_token(str)
                       ELSE unexpected_token(str),
                       index))
    ELSE Outcome(index, Bool(FALSE), NoError)

\* the patterns the primitives are called with: /\s+/, /\s*/, /\}/
Patterns == {"ws+", "ws*", "}"}

RECURSIVE WhitespaceRun(_, _)
WhitespaceRun(text, from) ==
    IF regex_whitespace_test(At(text, from)) THEN 1 + WhitespaceRun(text, from + 1) ELSE 0

\* the length of the match of pattern that starts at offset k of text, -1 when none does
MatchAt(pattern, text, k) ==
    CASE pattern = "ws+" -> IF WhitespaceRun(text, k) > 0 THEN WhitespaceRun(text, k) ELSE -1
      [] pattern = "ws*" -> WhitespaceRun(text, k)
      [] pattern = "}" -> IF At(text, k) = "}" THEN 1 ELSE -1

NoMatch == [index |-> -1, length |-> 0]

\* pattern.exec(text): the leftmost match
exec(pattern, text) ==
    LET starts == {k \in 0..Len(text) : MatchAt(pattern, text, k) >= 0} IN
    IF starts = {} THEN NoMatch
    ELSE LET k == CHOOSE k \in starts : \A j \in starts : k <= j
         IN [index |-> k, length |-> MatchAt(pattern, text, k)]

Rest == slice(template, index, Len(template))

\* match_regex, were a match further on accepted
match_regex_Unanchored(pattern) ==
    LET m == exec(pattern, Rest) IN
    IF m = NoMatch THEN Null
    ELSE Str(slice(Rest, m.index, m.index + m.length))

\* the matched text, Null when the pattern does not match at the cursor
match_regex(pattern) ==
    LET m == exec(pattern, Rest) IN
    IF m = NoMatch \/ m.index # 0 THEN Null
    ELSE Str(slice(Rest, 0, m.length))

\* `if (result)`: null and the empty string are falsy
read(pattern) ==
    LET r == match_regex(pattern) IN
    IF r.kind = "string" /\ Len(r.s) > 0
    THEN Outcome(index + Len(r.s), r, NoError)
    ELSE Outcome(index, r, NoError)

allow_whitespace_from(i) == i + WhitespaceRun(template, i)

allow_whitespace == Outcome(allow_whitespace_from(index), NoRet, NoError)

missing_whitespace == [code |-> "missing-whitespace", message |-> <<"Expected whitespace">>]

require_whitespace ==
    IF ~regex_whitespace_test(At(template, index))
    THEN Outcome(index, NoRet, error(missing_whitespace, index))
    ELSE allow_whitespace

\* utils/full_char_code_at: the code point that starts at offset i, written as
\* the units that encode it
full_char_code_at(str, i) ==
    IF At(str, i) = "H" /\ At(str, i + 1) = "L" THEN <<"H", "L">> ELSE <<At(str, i)>>

\* Width, were every code point taken for one unit
Width_OneUnit(code) == 1

\* Width, were every code point taken for two units
Width_TwoUnits(code) == 2

\* `code <= 0xffff ? 1 : 2`
Width(code) == IF Len(code) = 1 THEN 1 ELSE 2

\* acorn's isIdentifierStart(code, true) and isIdentifierChar(code, true)
isIdentifierStart(code) == code \in {<<"i">>, <<"n">>, <<"H", "L">>}

isIdentifierChar(code) == isIdentifierStart(code) \/ code = <<"1">>

\* utils/names: the reserved words
reserved == {<<"i", "n">>}

RECURSIVE ScanIdentifier(_)
ScanIdentifier(i) ==
    IF i < Len(template) /\ isIdentifierChar(full_char_code_at(template, i))
    THEN ScanIdentifier(i + Width(full_char_code_at(template, i)))
    ELSE i

unexpected_reserved_word(identifier) ==
    [code |-> "unexpected-reserved-word",
     message |-> <<"'">> \o identifier \o <<"' is a reserved word in JavaScript and cannot be used here">>]

\* read_identifier, were the reserved word reported at the offset after it
read_identifier_ErrorAfter(allow_reserved) ==
    LET code == full_char_code_at(template, index)
    IN  IF ~isIdentifierStart(code) THEN Outcome(index, Null, NoError)
        ELSE LET i == ScanIdentifier(index + Width(code))
                 identifier == slice(template, index, i)
             IN  IF ~allow_reserved /\ identifier \in reserved
                 THEN Outcome(i, NoRet, error(unexpected_reserved_word(identifier), i))
                 ELSE Outcome(i, Str(identifier), NoError)

read_identifier(allow_reserved) ==
    LET start == index
        code == full_char_code_at(template, index)
    IN  IF ~isIdentifierStart(code) THEN Outcome(index, Null, NoError)
        ELSE LET i == ScanIdentifier(index + Width(code))
                 identifier == slice(template, index, i)
             IN  IF ~allow_reserved /\ identifier \in reserved
                 THEN Outcome(i, NoRet, error(unexpected_reserved_word(identifier), start))
                 ELSE Outcome(i, Str(identifier), NoError)

\* read_until, were the offset of the match taken for an offset of the template
read_until_RelativeOffset(pattern, custom) ==
    IF index >= Len(template)
    THEN Outcome(index, NoRet, error(IF custom THEN CustomError ELSE unexpected_eof, index))
    ELSE LET start == index
             m == exec(pattern, slice(template, start, Len(template)))
         IN  IF m # NoMatch
             THEN Outcome(m.index, Str(slice(template, start, m.index)), NoError)
             ELSE Outcome(Len(template), Str(slice(template, start, Len(template))), NoError)

\* read_until, were the search made before the end of input is looked for
read_until_SearchFirst(pattern, custom) ==
    LET start == index
        m == exec(pattern, slice(template, start, Len(template)))
    IN  IF m # NoMatch
        THEN Outcome(start + m.index, Str(slice(template, start, start + m.index)), NoError)
        ELSE IF index >= Len(template)
        THEN Outcome(index, NoRet, error(IF custom THEN CustomError ELSE unexpected_eof, index))
        ELSE Outcome(Len(template), Str(slice(template, start, Len(template))), NoError)

read_until(pattern, custom) ==
    IF index >= Len(template)
    THEN Outcome(index, NoRet, error(IF custom THEN CustomError ELSE unexpected_eof, index))
    ELSE LET start == index
             m == exec(pattern, slice(template, start, Len(template)))
         IN  IF m # NoMatch
             THEN Outcome(start + m.index, Str(slice(template, start, start + m.index)), NoError)
             ELSE Outcome(Len(template), Str(slice(template, start, Len(template))), NoError)

\* a transition function calls primitive c, which leaves outcome o; the loop
\* enters the first transition function only with the cursor short of the end
Called(c, o) ==
    /\ pc = "loop" /\ ~Aborted
    /\ index < Len(template) \/ call # NoCall
    /\ call' = c
    /\ pre' = index
    /\ index' = o.index
    /\ ret' = o.ret
    /\ err' = o.err
    /\ UNCHANGED <<source, template, filename, stack, html, css, js, state, pc,
                   result, schema, options>>

Eat(str, required, custom) ==
    Called([NoCall EXCEPT !.fn = "eat", !.str = str, !.flag = required, !.custom = custom],
           eat(str, required, custom))

Match(str) ==
    Called([NoCall EXCEPT !.fn = "match", !.str = str], Outcome(index, Bool(match(str)), NoError))

Read(pattern) ==
    Called([NoCall EXCEPT !.fn = "read", !.pattern = pattern], read(pattern))

ReadUntil(pattern, custom) ==
    Called([NoCall EXCEPT !.fn = "read_until", !.pattern = pattern, !.custom = custom],
           read_until(pattern, custom))

AllowWhitespace == Called([NoCall EXCEPT !.fn = "allow_whitespace"], allow_whitespace)

RequireWhitespace == Called([NoCall EXCEPT !.fn = "require_whitespace"], require_whitespace)

ReadIdentifier(allow_reserved) ==
    Called([NoCall EXCEPT !.fn = "read_identifier", !.flag = allow_reserved],
           read_identifier(allow_reserved))

----------------------------------------------------------------------------
(* Structural-tree converter: VisualSchemaParser and parseVisualSchema *)

NoSchema == [type |-> "none"]

NoOptions == [type |-> "none"]

NullNode == [type |-> "null"]

\* expression and program texts, and those the sub-parsers reject
Expressions == {"count", "count +"}

Programs == {"", "let a = 1", "let ="}

Malformed == {"count +", "go(", "let ="}

\* code-red's parseExpressionAt(expr, 0, ...) and acorn's parse(js, ...), for
\* text they accept
parseExpressionAt(expr) == [type |-> "Expression", source |-> expr]

acornParse(text) == [type |-> "Program", sourceType |-> "module", source |-> text]

\* an argument left out where an object is expected
Omitted == [type |-> "undefined"]

createLocation(withLocation, startAndEnd) ==
    LET span == IF startAndEnd = Omitted THEN [start |-> 0, end |-> 0] ELSE startAndEnd IN
    IF withLocation
    THEN [start |-> span.start, end |-> span.end,
          loc |-> [start |-> [line |-> 0, column |-> 0], end |-> [line |-> 0, column |-> 0]]]
    ELSE [start |-> span.start, end |-> span.end]

parseText(raw, data) ==
    [type |-> "Text", raw |-> raw, data |-> IF data = Undefined THEN raw ELSE data,
     start |-> createLocation(FALSE, Omitted).start,
     end |-> createLocation(FALSE, Omitted).end]

parseAttribute(attribute) ==
    [type |-> attribute.type, name |-> attribute.name,
     value |-> [i \in DOMAIN attribute.value |-> parseText(attribute.value[i], Undefined)],
     start |-> createLocation(FALSE, Omitted).start,
     end |-> createLocation(FALSE, Omitted).end]

parseSvelteOptions(attributes) ==
    [type |-> "Options", name |-> "svelte:options",
     attributes |-> [i \in DOMAIN attributes |-> parseAttribute(attributes[i])],
     children |-> <<>>,
     start |-> createLocation(FALSE, Omitted).start,
     end |-> createLocation(FALSE, Omitted).end]

parseExpr(expr, wrapMustache) ==
    IF wrapMustache
    THEN [type |-> "MustacheTag", expression |-> parseExpressionAt(expr),
          start |-> createLocation(FALSE, Omitted).start,
          end |-> createLocation(FALSE, Omitted).end]
    ELSE parseExpressionAt(expr)

parseEventHandler(event, handleExpr) ==
    [type |-> "EventHandler", name |-> event, modifiers |-> <<>>,
     expression |-> parseExpr(handleExpr, FALSE),
     start |-> createLocation(FALSE, Omitted).start,
     end |-> createLocation(FALSE, Omitted).end]

isElementNode(node) == node.type = "element"

isExprNode(node) == node.type = "expr"

isTextNode(node) == node.type = "text"

\* the reduce over the attributes of an element: attrs is the accumulator
RECURSIVE ReduceAttributes(_, _)
ReduceAttributes(attrs, attributes) ==
    IF attributes = <<>> THEN attrs
    ELSE LET attr == Head(attributes) IN
         ReduceAttributes(
            IF attr.type = "EventHandler"
            THEN Append(attrs, parseEventHandler(attr.name, attr.value[1]))
            ELSE attrs,
            Tail(attributes))

RECURSIVE parseNode(_)
RECURSIVE ReduceChildren(_, _)

\* parseElementNode, were the children mapped and not reduced
parseElementNode_ChildrenMapped(tagName, attributes, children) ==
    [type |-> "Element", name |-> tagName,
     attributes |-> ReduceAttributes(<<>>, attributes),
     children |-> [i \in DOMAIN children |-> parseNode(children[i])],
     start |-> createLocation(FALSE, Omitted).start,
     end |-> createLocation(FALSE, Omitted).end]

parseElementNode(tagName, attributes, children) ==
    [type |-> "Element", name |-> tagName,
     attributes |-> ReduceAttributes(<<>>, attributes),
     children |-> ReduceChildren(<<>>, children),
     start |-> createLocation(FALSE, Omitted).start,
     end |-> createLocation(FALSE, Omitted).end]

parseNode(node) ==
    IF isElementNode(node)
    THEN parseElementNode(node.tagName, node.attributes, node.children)
    ELSE IF isExprNode(node)
    THEN parseExpr(node.expression, TRUE)
    ELSE IF isTextNode(node)
    THEN parseText(node.text, Undefined)
    ELSE NullNode

\* the reduce over the children of an element: acc is the accumulator
ReduceChildren(acc, children) ==
    IF children = <<>> THEN acc
    ELSE LET childAst == parseNode(Head(children)) IN
         ReduceChildren(IF childAst # NullNode THEN Append(acc, childAst) ELSE acc,
                        Tail(children))

createFragment(children) ==
    [type |-> "Fragment", children |-> children,
     start |-> createLocation(FALSE, Omitted).start,
     end |-> createLocation(FALSE, Omitted).end]

parseJs(text, context) ==
    [type |-> "Script", context |-> context, content |-> acornParse(text),
     start |-> createLocation(FALSE, Omitted).start,
     end |-> createLocation(FALSE, Omitted).end]

\* String.prototype.trim
RECURSIVE trimLeft(_)
trimLeft(str) == IF Len(str) > 0 /\ Head(str) = WS THEN trimLeft(Tail(str)) ELSE str

trim(str) == trimLeft(trimRight(str))

\* css-tree's parser with positions: one Rule for each "r" of the text, every
\* node carrying a loc
cssTreeParse(text) ==
    LET at == {k \in 1..Len(text) : text[k] = "r"}
        nth(n) == CHOOSE k \in at : Cardinality({j \in at : j <= k}) = n
        locOf(from, to) == [start |-> [offset |-> from], end |-> [offset |-> to]]
    IN [type |-> "StyleSheet", loc |-> locOf(0, Len(text)),
        children |-> [n \in 1..Cardinality(at) |->
                         [type |-> "Rule", loc |-> locOf(nth(n) - 1, nth(n))]]]

\* the walk's enter: start and end replace loc
Flatten(node) ==
    [type |-> node.type, start |-> node.loc.start.offset, end |-> node.loc.end.offset]

\* parseCss, were the sub-parser run only on text that holds a rule
parseCss_SkipsEmpty(text) ==
    LET styles == trim(text)
        cssAst == cssTreeParse(styles)
        span == [start |-> 0, end |-> Len(styles)]
    IN IF cssAst.children = <<>> THEN NullNode
       ELSE [type |-> "Style", attributes |-> <<>>,
             children |-> [i \in DOMAIN cssAst.children |-> Flatten(cssAst.children[i])],
             content |-> [styles |-> styles, start |-> span.start, end |-> span.end],
             start |-> span.start, end |-> span.end]

parseCss(text) ==
    LET styles == trim(text)
        cssAst == cssTreeParse(styles)
        span == [start |-> 0, end |-> Len(styles)]
    IN [type |-> "Style", attributes |-> <<>>,
        children |-> [i \in DOMAIN cssAst.children |-> Flatten(cssAst.children[i])],
        content |-> [styles |-> styles,
                     start |-> createLocation(FALSE, span).start,
                     end |-> createLocation(FALSE, span).end],
        start |-> createLocation(FALSE, span).start,
        end |-> createLocation(FALSE, span).end]

\* a field of an object, or the default when the object lacks it
Field(object, name, default) == IF name \in DOMAIN object THEN object[name] ELSE default

\* `customElement && schema.tag`, or the parameter's default 'div' when that is undefined
customTag(sch, opts) ==
    IF "customElement" \notin DOMAIN opts THEN "div"
    ELSE IF ~opts.customElement THEN FALSE
    ELSE Field(sch, "tag", "div")

\* the html fragment the constructor builds
htmlFragment(sch, opts) ==
    LET rootAst == parseNode(sch.root)
        tagOptions == parseSvelteOptions(
                         <<[type |-> "Attribute", name |-> "tag", value |-> <<customTag(sch, opts)>>]>>)
    IN createFragment(<<tagOptions, rootAst>>)

\* an expression of the node, or of a node below it, is rejected by its sub-parser
RECURSIVE Rejected(_)
Rejected(node) ==
    \/ isExprNode(node) /\ node.expression \in Malformed
    \/ /\ isElementNode(node)
       /\ \/ \E i \in DOMAIN node.attributes :
                /\ node.attributes[i].type = "EventHandler"
                /\ node.attributes[i].value[1] \in Malformed
          \/ \E i \in DOMAIN node.children : Rejected(node.children[i])

SubParserError ==
    [name |-> "SyntaxError", code |-> "none", message |-> <<"Unexpected token">>,
     source |-> <<>>, start |-> 0, filename |-> Undefined]

parseVisualSchema ==
    /\ pc = "schema" /\ ~Aborted
    /\ IF Rejected(schema.root) \/ Field(schema, "js", "") \in Malformed
       THEN /\ pc' = "rejected"
            /\ err' = SubParserError
            /\ UNCHANGED result
       ELSE /\ pc' = "converted"
            /\ result' = [type |-> "Ast",
                          html |-> htmlFragment(schema, options),
                          css |-> parseCss(Field(schema, "css", <<>>)),
                          instance |-> parseJs(Field(schema, "js", ""), "module"),
                          module |-> NullNode]
            /\ UNCHANGED err
    /\ UNCHANGED <<source, template, filename, index, stack, html, css, js, state,
                   call, pre, ret, schema, options>>

----------------------------------------------------------------------------
(* The textual path: parse(template, options) *)


\* the parser's fields when the constructor reaches its loop
Constructed(text, file) ==
    /\ source = text
    /\ template = trimRight(text)
    /\ filename = file
    /\ index = 0
    /\ stack = <<Root>>
    /\ html = EmptyHtml
    /\ css = <<>>
    /\ js = <<>>
    /\ state = "fragment"
    /\ pc = "loop"
    /\ err = NoError
    /\ result = NoResult
    /\ call = NoCall
    /\ pre = 0
    /\ ret = NoRet
    /\ schema = NoSchema
    /\ options = NoOptions

Init == \E text \in Texts(DriverUnits, MaxLen) : Constructed(text, "App.svelte")

Next ==
    \/ \E n \in 1..MaxLen, o \in TreeOps, returned \in States \cup {Void} :
          n <= Len(template) - index /\ Iterate(n, o, returned)
    \/ \E code \in {"unexpected-token", "parse-error"} : IterateRaises(code)
    \/ Complete
    \/ Assemble

Spec == Init /\ [][Next]_vars

\* the constructor and parse() run to completion: no step that can be taken is
\* put off for ever
LoopInit ==
    \E text \in Texts({"x"}, MaxLen - 1), trailing \in {<<>>, <<WS>>}, file \in Filenames :
        Constructed(text \o trailing, file)

FairSpec == LoopInit /\ [][Next]_vars /\ WF_vars(Next)

\* documents of up to MaxBlocks units without whitespace, each unit long enough
\* for one top-level block
BlocksInit == \E text \in Texts({"x"}, MaxBlocks) : Constructed(text, "App.svelte")

BlocksSpec == BlocksInit /\ [][Next]_vars

\* a transition function calling the cursor primitives, in any order
CursorInit == \E text \in Texts(CursorUnits, MaxLen) : Constructed(text, "App.svelte")

CursorNext ==
    \/ \E str \in Literals, required \in BOOLEAN, custom \in BOOLEAN : Eat(str, required, custom)
    \/ \E str \in Literals : Match(str)
    \/ \E pattern \in Patterns : Read(pattern)
    \/ \E pattern \in Patterns, custom \in BOOLEAN : ReadUntil(pattern, custom)
    \/ AllowWhitespace
    \/ RequireWhitespace
    \/ \E allow_reserved \in BOOLEAN : ReadIdentifier(allow_reserved)

CursorSpec == CursorInit /\ [][CursorNext]_vars

----------------------------------------------------------------------------
(* The structural path: parseVisualSchema(schema, options) *)

VisualAttributes ==
    {[type |-> "EventHandler", name |-> "click", value |-> <<"go()">>],
     [type |-> "EventHandler", name |-> "keyup", value |-> <<"stop()">>],
     [type |-> "EventHandler", name |-> "input", value |-> <<"go(">>],
     [type |-> "Attribute", name |-> "id", value |-> <<"main">>]}

LeafNodes ==
    {[type |-> "text", text |-> "Hello"], [type |-> "logic"], [type |-> "options"]}
    \cup {[type |-> "expr", expression |-> e] : e \in Expressions}

InnerElement ==
    [type |-> "element", tagName |-> "span",
     attributes |-> <<[type |-> "Attribute", name |-> "id", value |-> <<"main">>]>>,
     children |-> <<[type |-> "logic"], [type |-> "text", text |-> "Hello"]>>]

ElementNodes ==
    {[type |-> "element", tagName |-> "div", attributes |-> a, children |-> c] :
        a \in Texts(VisualAttributes, MaxAttributes),
        c \in Texts(LeafNodes \cup {InnerElement}, MaxChildNodes)}

StyleTexts == {<<>>, <<WS, "r">>, <<"r", WS, "r", WS>>}

\* the schemas: css, js and tag are optional, and given with the roots that
\* do not vary in their attributes and children
Schemas ==
    LET roots == LeafNodes \cup ElementNodes
        fixed == LeafNodes \cup {InnerElement}
    IN {[root |-> r] : r \in roots}
       \cup {[root |-> r, css |-> t] : r \in fixed, t \in StyleTexts}
       \cup {[root |-> r, js |-> p, tag |-> "my-el"] : r \in fixed, p \in Programs}

VisualOptions == {<<>>, [customElement |-> TRUE], [customElement |-> FALSE]}

VisualInit ==
    /\ source = <<>>
    /\ template = <<>>
    /\ filename = Undefined
    /\ index = 0
    /\ stack = <<>>
    /\ html = EmptyHtml
    /\ css = <<>>
    /\ js = <<>>
    /\ state = "fragment"
    /\ pc = "schema"
    /\ err = NoError
    /\ result = NoResult
    /\ call = NoCall
    /\ pre = 0
    /\ ret = NoRet
    /\ schema \in Schemas
    /\ options \in VisualOptions

VisualNext == parseVisualSchema

VisualSpec == VisualInit /\ [][VisualNext]_vars

----------------------------------------------------------------------------
(* Properties of the textual path *)

LoopEnded == pc # "loop"

Completed == pc \in {"constructed", "parse", "done"}

\* C1: whenever the driver loop has ended with more than the root on the
\* context stack, the parse has failed and returned no tree; the error's code
\* is unclosed-element and its message names the open tag when the top of the
\* stack is an Element, its code is unclosed-block otherwise; its start is the
\* start of that top node, whatever transition function was last active.
UnclosedIsReported ==
    (LoopEnded /\ Len(stack) > 1) =>
        LET top == stack[Len(stack)] IN
        /\ Aborted
        /\ result = NoResult
        /\ err.start = top.start
        /\ IF top.type = "Element"
           THEN /\ err.code = "unclosed-element"
                /\ err.message = <<"<", top.name, ">", " was left open">>
           ELSE err.code = "unclosed-block"

UnclosedWitness ==
    /\ LoopEnded /\ Len(stack) = 3
    /\ stack[3].type = "Element" /\ stack[2].type = "Element"
    /\ stack[3].name # stack[2].name /\ stack[3].start # stack[2].start
    /\ state # "fragment"

\* C2: the context stack always holds the root Fragment at index 0, so its
\* length is at least 1 after any sequence of transition-function invocations,
\* and its length is exactly 1 whenever the constructor has completed.
RootInvariant ==
    /\ Len(stack) >= 1
    /\ stack[1] = Root
    /\ Completed => Len(stack) = 1

RootWitness ==
    /\ Completed
    /\ Len(html.children) > 0
    /\ \E i \in 1..Len(html.children) : html.children[i].end - html.children[i].start = MaxLen

\* the parse has failed with unexpected-eof at the end of input
FailedAtEof ==
    /\ pc = "post" /\ Aborted /\ result = NoResult
    /\ err.code = "unexpected-eof" /\ err.start = Len(template)

\* C16: when the driver loop ends with only the root on the context stack, the
\* parse fails with unexpected-eof at the end-of-input offset if and only if
\* the transition function invoked last returned a transition other than
\* fragment; one that returns no value counts as fragment, and an input on
\* which the loop never runs ends in fragment and does not fail.
EofIffNotFragment ==
    (LoopEnded /\ Len(stack) = 1) =>
        /\ FailedAtEof <=> (ret # NoRet /\ ret.s[1] \notin {"fragment", Void})
        /\ ret = NoRet => (template = <<>> /\ state = "fragment" /\ ~Aborted)
        /\ (ret # NoRet /\ ret.s[1] = Void) => (state = "fragment" /\ pc # "post")

EofWitness ==
    /\ FailedAtEof /\ Len(stack) = 1
    /\ ret = Returned("tag")
    /\ Len(html.children) = 2 /\ html.children[2].end # null

ScriptsOf(context) == {i \in 1..Len(js) : js[i].context = context}

\* the position in js of the k-th script of a context
Nth(context, k) ==
    CHOOSE i \in ScriptsOf(context) : Cardinality({j \in ScriptsOf(context) : j <= i}) = k

Assembled == pc \in {"parse", "done"}

\* C3: once parse() has run its checks after a successful scan, it has failed
\* with duplicate-style at the start of the second style entry if the style
\* list has more than one entry; with at most one style entry and at most one
\* script of each context it has succeeded, and the css it returns is absent
\* for an empty list and the single entry otherwise.
StyleCardinality ==
    Assembled =>
        IF Len(css) > 1
        THEN /\ Aborted /\ result = NoResult
             /\ err.code = "duplicate-style"
             /\ err.start = css[2].start
        ELSE (Cardinality(ScriptsOf("default")) <= 1 /\ Cardinality(ScriptsOf("module")) <= 1) =>
                /\ pc = "done" /\ ~Aborted
                /\ result.type = "Ast"
                /\ result.css = IF Len(css) = 0 THEN Absent ELSE css[1]

DuplicateStyleWitness ==
    /\ Assembled /\ Len(css) = 2 /\ Len(js) = 1
    /\ css[1].start < js[1].start /\ js[1].start < css[2].start

\* C4: when parse() partitions the scripts (the style check having passed), more
\* than one default-context script makes it fail with invalid-script-instance
\* and, that check having passed, more than one module-context script makes it
\* fail with invalid-script-module, each at the start of the second script of
\* that context; with at most one script of each context it succeeds and
\* returns the first script of each context, or nothing for a context without one.
ScriptCardinality ==
    (Assembled /\ Len(css) <= 1) =>
        IF Cardinality(ScriptsOf("default")) > 1
        THEN /\ Aborted /\ result = NoResult
             /\ err.code = "invalid-script-instance"
             /\ err.start = js[Nth("default", 2)].start
        ELSE IF Cardinality(ScriptsOf("module")) > 1
        THEN /\ Aborted /\ result = NoResult
             /\ err.code = "invalid-script-module"
             /\ err.start = js[Nth("module", 2)].start
        ELSE /\ pc = "done" /\ ~Aborted
             /\ result.type = "Ast"
             /\ result.instance =
                   IF ScriptsOf("default") = {} THEN Absent ELSE js[Nth("default", 1)]
             /\ result.module =
                   IF ScriptsOf("module") = {} THEN Absent ELSE js[Nth("module", 1)]

ScriptPartitionWitness ==
    /\ Assembled /\ Len(js) = 3
    /\ js[1].context # js[2].context /\ js[2].context = js[3].context
    /\ err.start = js[3].start

\* C8 as stated: after a successful scan a root without children has null
\* start and end, as it has for any input made of whitespace only; a root with
\* children starts at the first offset at or after its first child's start
\* that holds a non-whitespace unit, ends at the last offset at or before its
\* last child's end whose preceding unit is not whitespace, and start <= end.
RootSpanTrimmed ==
    Completed =>
        LET kids == html.children IN
        /\ (\A i \in 1..Len(source) : source[i] = WS) => kids = <<>>
        /\ kids = <<>> => html.start = null /\ html.end = null
        /\ kids # <<>> =>
              /\ html.start >= kids[1].start
              /\ html.start < Len(source) /\ source[html.start + 1] # WS
              /\ \A k \in kids[1].start..(html.start - 1) : source[k + 1] = WS
              /\ html.end <= kids[Len(kids)].end
              /\ html.end > 0 /\ source[html.end] # WS
              /\ \A k \in (html.end + 1)..kids[Len(kids)].end : source[k] = WS
              /\ html.start <= html.end

----------------------------------------------------------------------------
(* Properties of the cursor primitives *)

\* the literal of the last call occurs in the text at the offset it was called at
LiteralPresent ==
    \A k \in 1..Len(call.str) :
        pre + k <= Len(template) /\ template[pre + k] = call.str[k]

\* C5: eat advances the cursor by the literal's length and returns true if the
\* literal is at the cursor; if it is not and the call is required, it raises
\* the custom error when one is given, else unexpected-eof-token at the end of
\* input and unexpected-token elsewhere; if it is not and the call is not
\* required, it returns false.
EatContract ==
    call.fn = "eat" =>
        IF LiteralPresent
        THEN ~Aborted /\ ret = Bool(TRUE) /\ index = pre + Len(call.str)
        ELSE IF call.flag
        THEN /\ Aborted /\ ret = NoRet
             /\ err.code = IF call.custom THEN CustomError.code
                           ELSE IF pre = Len(template) THEN "unexpected-eof-token"
                           ELSE "unexpected-token"
             /\ call.custom => err.message = CustomError.message
             /\ ~call.custom => err.message = <<"Expected ">> \o call.str
        ELSE ~Aborted /\ ret = Bool(FALSE) /\ index = pre

EatWitness ==
    /\ call.fn = "eat" /\ call.flag /\ ~call.custom
    /\ Aborted /\ pre = Len(template) /\ pre > 0
    /\ call.str = <<"}">>

\* the code points of the expression language's identifiers, as code units
IdentifierStartPoints == {<<"i">>, <<"n">>, <<"H", "L">>}

IdentifierPartPoints == IdentifierStartPoints \cup {<<"1">>}

\* the text from offset a to offset b is one code point of the set
IsPoint(a, b, points) == b > a /\ b <= Len(template) /\ SubSeq(template, a + 1, b) \in points

\* the offsets e such that the text from `from` to e is an identifier-start
\* code point followed by identifier-continue code points
RECURSIVE PartEnds(_)
PartEnds(from) ==
    {from} \cup UNION {PartEnds(b) : b \in {c \in {from + 1, from + 2} : IsPoint(from, c, IdentifierPartPoints)}}

RunEnds(from) ==
    UNION {PartEnds(b) : b \in {c \in {from + 1, from + 2} : IsPoint(from, c, IdentifierStartPoints)}}

RunEnd(from) == CHOOSE e \in RunEnds(from) : \A d \in RunEnds(from) : d <= e

\* C6: when the text at the cursor begins with an identifier-start code point,
\* read_identifier leaves the cursor after the whole run of identifier code
\* points, having advanced by 2 units for each code point outside the Basic
\* Multilingual Plane and by 1 for every other, returns that run, and does not
\* stop between the two units of a surrogate pair.
IdentifierByCodePoint ==
    (call.fn = "read_identifier" /\ RunEnds(pre) # {}) =>
        /\ index = RunEnd(pre)
        /\ ~Aborted => ret = Str(SubSeq(template, pre + 1, RunEnd(pre)))
        /\ ~(At(template, index - 1) = "H" /\ At(template, index) = "L")

IdentifierWitness ==
    /\ call.fn = "read_identifier" /\ ~Aborted
    /\ ret = Str(<<"H", "L", "i">>)
    /\ index = 3

\* C7: when the word read_identifier has read is reserved, the call raises
\* unexpected-reserved-word at the offset the word starts at if allow_reserved
\* is false and returns the word if it is true; a word that is not reserved is
\* returned in both modes.
ReservedWord ==
    (call.fn = "read_identifier" /\ index > pre) =>
        LET word == SubSeq(template, pre + 1, index) IN
        IF word = <<"i", "n">> /\ ~call.flag
        THEN /\ Aborted /\ ret = NoRet
             /\ err.code = "unexpected-reserved-word"
             /\ err.start = pre
        ELSE ~Aborted /\ ret = Str(word)

ReservedWitness ==
    /\ call.fn = "read_identifier" /\ ~call.flag
    /\ Aborted /\ pre > 0 /\ index = pre + 2

\* the text without its trailing whitespace
Trimmed(text) ==
    LET k == CHOOSE k \in 0..Len(text) :
                 /\ k > 0 => text[k] # WS
                 /\ \A j \in (k + 1)..Len(text) : text[j] = WS
    IN SubSeq(text, 1, k)

ErrorCodeOfCall ==
    CASE call.fn = "eat" ->
            IF call.custom THEN CustomError.code
            ELSE IF pre = Len(template) THEN "unexpected-eof-token" ELSE "unexpected-token"
      [] call.fn = "read_until" -> IF call.custom THEN CustomError.code ELSE "unexpected-eof"
      [] call.fn = "require_whitespace" -> "missing-whitespace"
      [] call.fn = "read_identifier" -> "unexpected-reserved-word"
      [] OTHER -> "none"

ErrorMessageOfCall ==
    CASE call.fn \in {"eat", "read_until"} /\ call.custom -> CustomError.message
      [] call.fn = "eat" /\ ~call.custom -> <<"Expected ">> \o call.str
      [] call.fn = "read_until" /\ ~call.custom -> <<"Unexpected end of input">>
      [] call.fn = "require_whitespace" -> <<"Expected whitespace">>
      [] call.fn = "read_identifier" ->
            <<"'">> \o SubSeq(template, pre + 1, index)
                \o <<"' is a reserved word in JavaScript and cannot be used here">>
      [] OTHER -> <<>>

\* C9 as stated: a primitive that calls error does not return and the parse
\* returns no tree; the error raised has name ParseError, the code and message
\* the caller gave, the offset the caller gave (the cursor offset when it gave
\* none), the configured filename, and as source the full text passed to the
\* parse call.
ErrorCarriesDocument ==
    Aborted =>
        /\ err.name = "ParseError"
        /\ ret = NoRet /\ result = NoResult
        /\ err.code = ErrorCodeOfCall
        /\ err.message = ErrorMessageOfCall
        /\ err.start = pre
        /\ err.filename = filename
        /\ err.source = source

\* C9, amended: as above, but the source the error carries is the text passed
\* to the parse call without its trailing whitespace; and once raised, the
\* error ends the parse: nothing happens after it.
ErrorReport ==
    /\ [](Aborted =>
            /\ err.name = "ParseError"
            /\ ret = NoRet /\ result = NoResult
            /\ err.code = ErrorCodeOfCall
            /\ err.message = ErrorMessageOfCall
            /\ err.start = pre
            /\ call.fn # "read_identifier" => err.start = index
            /\ err.filename = filename
            /\ err.source = Trimmed(source))
    /\ [][~Aborted]_vars

ErrorWitness ==
    /\ Aborted /\ call.fn = "read_identifier"
    /\ err.start < index
    /\ filename # Undefined
    /\ Len(source) > Len(err.source)

\* C14: the cursor offset never decreases across any sequence of calls of the
\* cursor primitives: no primitive leaves the offset smaller than it found it.
OffsetNeverDecreases == [][index' >= index]_vars

OffsetWitness ==
    /\ call.fn \in {"read_until", "read", "allow_whitespace"}
    /\ pre > 0 /\ index > pre

\* the pattern of the call matches the text that starts at offset k
MatchesFrom(k) ==
    CASE call.pattern = "ws+" -> At(template, k) = WS
      [] call.pattern = "ws*" -> TRUE
      [] call.pattern = "}" -> At(template, k) = "}"
      [] OTHER -> FALSE

\* the offsets from the call's offset on at which its pattern matches
MatchOffsets == {k \in pre..Len(template) : MatchesFrom(k)}

FirstMatch == CHOOSE k \in MatchOffsets : \A j \in MatchOffsets : k <= j

\* C15: read_until called at the end of input fails, with the descriptor given
\* or else unexpected-eof, before any search, even if the pattern matches the
\* empty remainder; called before the end it returns the text from the cursor
\* up to, not including, the first match of the pattern in the remaining text
\* and leaves the cursor at the start of that match, or returns all the
\* remaining text and leaves the cursor at the end when there is no match.
ReadUntilContract ==
    call.fn = "read_until" =>
        IF pre >= Len(template)
        THEN /\ Aborted /\ index = pre /\ err.start = pre
             /\ err.code = (IF call.custom THEN "custom-error" ELSE "unexpected-eof")
        ELSE /\ ~Aborted
             /\ IF MatchOffsets # {}
                THEN index = FirstMatch /\ ret = Str(SubSeq(template, pre + 1, FirstMatch))
                ELSE index = Len(template)
                     /\ ret = Str(SubSeq(template, pre + 1, Len(template)))

ReadUntilWitness ==
    /\ call.fn = "read_until" /\ call.pattern = "ws*" /\ ~call.custom
    /\ pre = Len(template) /\ pre > 0
    /\ Aborted /\ err.code = "unexpected-eof"

\* C18: in every state reached by any sequence of calls of the cursor
\* primitives the cursor offset is at least 0 and at most the length of the
\* scanned text: no primitive moves the cursor past the end of input.
OffsetInBounds == 0 <= index /\ index <= Len(template)

OffsetAtEndWitness ==
    /\ call.fn = "read_identifier" /\ ~Aborted
    /\ pre > 0 /\ index = Len(template) /\ index = pre + 2
    /\ At(template, pre) = "H" /\ At(template, pre + 1) = "L"

\* the call about to be made (call') does not find what it looks for at the cursor
LiteralAbsent == slice(template, index, index + Len(call'.str)) # call'.str

NotFound ==
    \/ call'.fn = "eat" /\ ~call'.flag /\ LiteralAbsent
    \/ call'.fn = "read" /\ call'.pattern = "ws+" /\ At(template, index) # WS
    \/ call'.fn = "read" /\ call'.pattern = "}" /\ At(template, index) # "}"
    \/ /\ call'.fn = "read_identifier"
       /\ ~IsPoint(index, index + 1, IdentifierStartPoints)
       /\ ~IsPoint(index, index + 2, IdentifierStartPoints)

\* C19: a primitive that does not find what it looks for leaves the parser
\* state as it was: match never moves the cursor; eat of an absent literal that
\* is not required returns false, read of a pattern that does not match at the
\* cursor and read_identifier at a code point that is no identifier start
\* return null, each with the cursor, the stack and the side lists unchanged.
FailedLookupLeavesState ==
    [][/\ call'.fn = "match" =>
             /\ index' = index
             /\ UNCHANGED <<stack, css, js, html>>
             /\ ret' = Bool(~LiteralAbsent)
       /\ NotFound =>
             /\ index' = index
             /\ UNCHANGED <<stack, css, js, html>>
             /\ err' = err
             /\ ret' = (IF call'.fn = "eat" THEN Bool(FALSE) ELSE Null)]_vars

FailedLookupWitness ==
    /\ call.fn = "read" /\ call.pattern = "}" /\ ret = Null /\ ~Aborted
    /\ index = pre /\ pre > 0
    /\ At(template, pre) # "}"
    /\ \E k \in (pre + 1)..(Len(template) - 1) : At(template, k) = "}"

\* C17: every invocation of a transition function advancing the cursor by at
\* least one unit, the driver loop ends after finitely many invocations unless
\* one raises; when it has ended the cursor offset is exactly the length of
\* the scanned text, and no transition function is invoked once the cursor is
\* at the end of input.
LoopTerminates ==
    /\ <>(LoopEnded \/ Aborted)
    /\ [](LoopEnded => index = Len(template))
    /\ [][(pc = "loop" /\ index = Len(template)) =>
             (pc' # "loop" /\ index' = index /\ ret' = ret /\ state' = state)]_vars
    /\ [][(pc = "loop" /\ pc' = "loop" /\ ~Aborted') =>
             (index < index' /\ index' <= Len(template))]_vars

LoopExitWitness ==
    /\ LoopEnded /\ index = Len(template)
    /\ Len(source) > Len(template)
    /\ Len(html.children) = 2 /\ html.children[2].start = 1

ScanCodes ==
    {"unexpected-token", "parse-error", "unclosed-element", "unclosed-block", "unexpected-eof"}

\* C20: a parse reports exactly one failure, chosen in a fixed order: a failure
\* of the scan (an error of a primitive, unclosed-element, unclosed-block,
\* unexpected-eof) is reported before any cardinality check runs, whatever the
\* side lists hold; of the cardinality violations present together,
\* duplicate-style is reported before both script errors and
\* invalid-script-instance before invalid-script-module; once a failure is
\* reported nothing else happens and no tree is returned.
OneFailureInOrder ==
    /\ [](Aborted => result = NoResult)
    /\ []((Aborted /\ ~Assembled) => (pc \in {"loop", "post"} /\ err.code \in ScanCodes))
    /\ [](Assembled =>
             IF Len(css) > 1 THEN Aborted /\ err.code = "duplicate-style"
             ELSE IF Cardinality(ScriptsOf("default")) > 1
             THEN Aborted /\ err.code = "invalid-script-instance"
             ELSE IF Cardinality(ScriptsOf("module")) > 1
             THEN Aborted /\ err.code = "invalid-script-module"
             ELSE ~Aborted)
    /\ [][~Aborted]_vars

ViolationsTogetherWitness ==
    /\ Assembled /\ Aborted
    /\ Len(css) = 2 /\ Cardinality(ScriptsOf("default")) = 2
    /\ js[2].start < css[2].start
    /\ err.code = "duplicate-style"

----------------------------------------------------------------------------
(* Properties of the structural path *)

TreeNodeTypes == {"Element", "MustacheTag", "Text"}

\* C10 as stated: the html of a conversion is a Fragment whose children are
\* exactly two nodes, an Options node with the single attribute `tag` and then
\* the converted root node; with customElement true and a schema tag T the
\* value of that attribute is a single Text node with data T, and a text root
\* with text S is converted to a Text node with data S.
FragmentOfTwoNodes ==
    pc = "converted" =>
        LET kids == result.html.children IN
        /\ result.html.type = "Fragment"
        /\ Len(kids) = 2
        /\ kids[1].type = "Options"
        /\ Len(kids[1].attributes) = 1
        /\ kids[1].attributes[1].name = "tag"
        /\ kids[2].type \in TreeNodeTypes
        /\ ("customElement" \in DOMAIN options /\ options.customElement /\ "tag" \in DOMAIN schema) =>
              /\ Len(kids[1].attributes[1].value) = 1
              /\ kids[1].attributes[1].value[1].type = "Text"
              /\ kids[1].attributes[1].value[1].data = schema.tag
        /\ schema.root.type = "text" =>
              kids[2].type = "Text" /\ kids[2].data = schema.root.text

\* the text without the whitespace at its ends
Stripped(text) ==
    LET inner == {k \in 1..Len(text) : text[k] # WS} IN
    IF inner = {} THEN <<>>
    ELSE SubSeq(text, CHOOSE a \in inner : \A k \in inner : a <= k,
                      CHOOSE b \in inner : \A k \in inner : k <= b)

\* C11: every conversion that is accepted returns a css entry, also for a
\* schema without stylesheet text or with an empty one; the entry is the Style
\* node of the stylesheet sub-parser run on the supplied text: its content is
\* that text without the whitespace at its ends, it has one child for each rule
\* of the text, and every child carries flat start and end offsets and no loc.
StyleAlwaysPresent ==
    pc = "converted" =>
        LET supplied == IF "css" \in DOMAIN schema THEN schema.css ELSE <<>>
            styles == Stripped(supplied)
            style == result.css
        IN  /\ style.type = "Style"
            /\ style.content.styles = styles
            /\ style.start = 0 /\ style.end = Len(styles)
            /\ style.content.start = 0 /\ style.content.end = Len(styles)
            /\ Len(style.children) = Cardinality({k \in 1..Len(styles) : styles[k] = "r"})
            /\ \A i \in 1..Len(style.children) :
                  /\ DOMAIN style.children[i] = {"type", "start", "end"}
                  /\ style.children[i].end = style.children[i].start + 1
                  /\ styles[style.children[i].end] = "r"
                  /\ i > 1 => style.children[i - 1].end <= style.children[i].start

StyleWitness ==
    /\ pc = "converted"
    /\ "css" \notin DOMAIN schema
    /\ result.css.type = "Style"
    /\ result.css.children = <<>>

\* an entry of the output that holds no script
NoScript(entry) == entry.type \in {"absent", "null"}

\* C12 as stated: a conversion parses the program text into a Script node
\* tagged module-context, and in the output it returns the instance entry is
\* absent or a default-context Script and the module entry is absent or a
\* module-context Script.
ScriptSlots ==
    pc = "converted" =>
        /\ \E entry \in {result.instance, result.module} :
              /\ entry.type = "Script" /\ entry.context = "module"
              /\ entry.content.source = (IF "js" \in DOMAIN schema THEN schema.js ELSE "")
        /\ NoScript(result.instance)
              \/ (result.instance.type = "Script" /\ result.instance.context = "default")
        /\ NoScript(result.module)
              \/ (result.module.type = "Script" /\ result.module.context = "module")

IsEventHandler(attr) == attr.type = "EventHandler"

YieldsNode(node) == node.type \in {"element", "expr", "text"}

\* ast is what the claim has for the node: the handlers of an element in input
\* order and nothing else, its children that yield a node in input order, each
\* converted the same way
RECURSIVE ConvertedAs(_, _)
ConvertedAs(node, ast) ==
    CASE node.type = "text" -> ast.type = "Text" /\ ast.raw = node.text
      [] node.type = "expr" ->
            ast.type = "MustacheTag" /\ ast.expression.source = node.expression
      [] node.type = "element" ->
            LET handlers == SelectSeq(node.attributes, IsEventHandler)
                kept == SelectSeq(node.children, YieldsNode)
            IN /\ ast.type = "Element" /\ ast.name = node.tagName
               /\ Len(ast.attributes) = Len(handlers)
               /\ \A k \in 1..Len(handlers) :
                     /\ ast.attributes[k].type = "EventHandler"
                     /\ ast.attributes[k].name = handlers[k].name
                     /\ ast.attributes[k].expression.source = handlers[k].value[1]
               /\ Len(ast.children) = Len(kept)
               /\ \A k \in 1..Len(kept) : ConvertedAs(kept[k], ast.children[k])
      [] OTHER -> FALSE

\* C13: the conversion of an element node is an order-preserving filter: its
\* attribute list holds exactly one EventHandler node for each input attribute
\* of kind EventHandler, in input order, and nothing for any other kind; its
\* children list holds the conversions of the input children in input order,
\* without the children whose conversion yields no node.
ElementIsOrderedFilter ==
    (pc = "converted" /\ schema.root.type = "element") =>
        ConvertedAs(schema.root, result.html.children[2])

ElementWitness ==
    /\ pc = "converted" /\ schema.root.type = "element"
    /\ Len(schema.root.attributes) = 2 /\ Len(schema.root.children) = 2
    /\ schema.root.attributes[1].name = "keyup" /\ schema.root.attributes[2].name = "click"
    /\ schema.root.children[1].type = "logic" /\ schema.root.children[2].type = "expr"
    /\ Len(result.html.children[2].attributes) = 2
    /\ Len(result.html.children[2].children) = 1

====
